---- MODULE Spec2Model ----
(***************************************************************************)
(* Model of the RAG backend: user accounts in MongoDB, bearer-JWT          *)
(* authentication, and the document pipeline (extract, clean, chunk,       *)
(* embed, upsert, scroll, filtered search, delete) over Qdrant.            *)
(*                                                                         *)
(* Text is a sequence of one-character strings.  "~" stands for any        *)
(* character outside [\x20-\x7E\n] that is not whitespace (e.g. a          *)
(* non-ASCII letter).                                                      *)
(***************************************************************************)
EXTENDS Integers, Sequences, FiniteSets, TLC

VARIABLES users, nextOid, reg, issued, now, points, nextDoc,
          collection_ready, collection, resp, settings, chunking, tempfiles

vars == <<users, nextOid, reg, issued, now, points, nextDoc,
          collection_ready, collection, resp, settings, chunking, tempfiles>>

----------------------------------------------------------------------------
(* Bounds of the model *)

MaxClock == 1
MaxOids == 2
MaxDocs == 2
MaxTokens == 1
(* chunker followed step by step: tokens of the text, window size *)
MaxLen == 6
MaxSize == 3
(* files left in the temporary directory *)
MaxTemp == 2

(* Configuration (Settings has no defaults; values come from the environment) *)
CHUNK_SIZE == 2
OVERLAP == 1
JWT_EXPIRES_MINUTES == 1
VECTOR_SIZE == 2
(* limit= of every scroll call; scaled down from 1000 *)
SCROLL_LIMIT == 2

NONE == -1

----------------------------------------------------------------------------
(* Text utilities: src/utils/chunker.py and the str methods it uses *)

IsSpace(c) == c \in {" ", "\n"}

IsPrintable(c) == c \in {"a", "b", "c", "d", " ", "\n"}

RECURSIVE LStrip(_)
LStrip(s) ==
    IF s = <<>> THEN <<>>
    ELSE IF IsSpace(Head(s)) THEN LStrip(Tail(s)) ELSE s

RECURSIVE RStrip(_)
RStrip(s) ==
    IF s = <<>> THEN <<>>
    ELSE IF IsSpace(s[Len(s)]) THEN RStrip(SubSeq(s, 1, Len(s) - 1)) ELSE s

(* str.strip() *)
Strip(s) == RStrip(LStrip(s))

(* re.sub(r"[^\x20-\x7E\n]+", " ", text): each run of other characters -> one space *)
RECURSIVE SubNonPrintable(_)
SubNonPrintable(s) ==
    IF s = <<>> THEN <<>>
    ELSE IF IsPrintable(Head(s)) THEN <<Head(s)>> \o SubNonPrintable(Tail(s))
    ELSE IF Len(s) > 1 /\ ~IsPrintable(s[2]) THEN SubNonPrintable(Tail(s))
    ELSE <<" ">> \o SubNonPrintable(Tail(s))

(* re.sub(r"X{2,}", "X", text) for a single character X *)
RECURSIVE Squeeze(_, _)
Squeeze(s, x) ==
    IF s = <<>> THEN <<>>
    ELSE IF Head(s) = x /\ Len(s) > 1 /\ s[2] = x THEN Squeeze(Tail(s), x)
    ELSE <<Head(s)>> \o Squeeze(Tail(s), x)

clean_text(text) ==
    Strip(Squeeze(Squeeze(SubNonPrintable(text), " "), "\n"))

(* str.split(): the maximal runs of non-whitespace characters *)
RECURSIVE SplitFrom(_, _)
SplitFrom(s, cur) ==
    IF s = <<>> THEN (IF cur = <<>> THEN <<>> ELSE <<cur>>)
    ELSE IF IsSpace(Head(s))
         THEN (IF cur = <<>> THEN <<>> ELSE <<cur>>) \o SplitFrom(Tail(s), <<>>)
         ELSE SplitFrom(Tail(s), Append(cur, Head(s)))

Split(s) == SplitFrom(s, <<>>)

(* " ".join(tokens) *)
RECURSIVE Join(_)
Join(toks) ==
    IF toks = <<>> THEN <<>>
    ELSE IF Len(toks) = 1 THEN toks[1]
    ELSE toks[1] \o <<" ">> \o Join(Tail(toks))

Min(a, b) == IF a < b THEN a ELSE b

(* a slice bound as Python reads it: a negative bound counts from the end,
   and every bound is clamped to 0..n *)
SliceBound(i, n) == IF i < 0 THEN (IF i + n < 0 THEN 0 ELSE i + n) ELSE Min(i, n)

(* seq[start:end] with 0-based start, exclusive end *)
Slice(seq, start, end) ==
    SubSeq(seq, SliceBound(start, Len(seq)) + 1, SliceBound(end, Len(seq)))

(* mutant: the window moves on by size, the overlap forgotten *)
next_start_nooverlap(start, size, overlap) == start + size

(* "start += size - overlap" *)
next_start(start, size, overlap) == start + (size - overlap)

(* the while loop of chunker, from position start *)
RECURSIVE ChunkLoop(_, _, _, _)
ChunkLoop(seq, start, size, overlap) ==
    IF ~(start < Len(seq)) THEN <<>>
    ELSE LET end == start + size
             chunk == Join(Slice(seq, start, end))
         IN IF end >= Len(seq) THEN <<chunk>>
            ELSE <<chunk>> \o ChunkLoop(seq, next_start(start, size, overlap), size, overlap)

chunker(text) == ChunkLoop(Split(clean_text(text)), 0, CHUNK_SIZE, OVERLAP)

----------------------------------------------------------------------------
(* Inputs *)

Clients == {"c1", "c2"}
Emails == {"x@e", "y@e"}
Passwords == {"p1", "p2"}
Salts == {"s1", "s2"}

(* An uploaded file: its name as (stem, extension), so that
   os.path.splitext(name)[1] is the ext field; the text its bytes hold *)
File(stem, ext, text) == [stem |-> stem, ext |-> ext, text |-> text]

Files ==
    { File("", "", <<"a">>),
      File("m", ".exe", <<"a">>),
      File("n", ".txt", <<>>),
      File("n", ".txt", <<" ", "\n">>),
      File("n", ".txt", <<"~">>),
      File("n", ".txt", <<"a">>),
      File("r", ".PDF", <<"a", " ", "b", " ", "c", " ", "d">>) }

Queries == { <<>>, <<" ">>, <<"a">> }
TopKs == {1, 5}

(* A response of the HTTP layer; NoResp after a step that answers nothing *)
Resp(op, client, token, user, status, exc, calls, fault, req, body) ==
    [op |-> op, client |-> client, token |-> token, user |-> user,
     status |-> status, exc |-> exc, calls |-> calls, fault |-> fault,
     req |-> req, body |-> body]

NoResp == Resp("none", "", NONE, NONE, 0, "", {}, "none", <<>>, <<>>)

Idle == [pc |-> "idle", data |-> <<>>, oid |-> NONE]

(* no call of chunker is being followed step by step *)
NoChunking ==
    [text |-> <<>>, seq |-> <<>>, size |-> CHUNK_SIZE, overlap |-> OVERLAP,
     start |-> 0, chunks |-> <<>>, pc |-> "idle"]

----------------------------------------------------------------------------
(* MongoDB users collection: src/repository/user_repository.py *)

(* str(ObjectId) and ObjectId(str) *)
ObjectId(user_id) == <<"ObjectId", user_id>>
OidStr(oid) == oid[2]

(* collection.find_one({"email": email}): the matching documents *)
find_by_email(email) == {u \in users : u.email = email}

(* collection.find_one({"_id": ObjectId(user_id)}) *)
find_by_id(user_id) == {u \in users : u._id = ObjectId(user_id)}

(* the $set of update_user applied to record u *)
SetFields(u, update_data) ==
    [f \in DOMAIN u |-> IF f \in DOMAIN update_data THEN update_data[f] ELSE u[f]]

(* update_user: outcome and the new collection.  modified_count = 0 when the
   $set changes no field of the stored record. *)
update_user(user_id, update_data, fault) ==
    LET found == find_by_id(user_id)
        data == [f \in DOMAIN update_data \cup {"updated_at"} |->
                    IF f = "updated_at" THEN now ELSE update_data[f]]
    IN  IF fault THEN [exc |-> "UserUpdateError", users |-> users]
        ELSE IF found = {} THEN [exc |-> "UserNotFoundError", users |-> users]
        ELSE LET u == CHOOSE x \in found : TRUE
                 v == SetFields(u, data)
             IN IF v = u THEN [exc |-> "UserUpdateError", users |-> users]
                ELSE [exc |-> "", users |-> (users \ {u}) \cup {v}]

(* mutant: the update that leaves the password field out of the $set *)
update_password_lost(user_id, password_hash, fault) ==
    update_user(user_id, [last_login |-> now], fault)

update_password(user_id, password_hash, fault) ==
    update_user(user_id, [password |-> password_hash], fault)

(* delete_user of the repository *)
delete_user(user_id) ==
    LET found == find_by_id(user_id)
    IN  IF found = {} THEN [exc |-> "UserNotFoundError", users |-> users]
        ELSE [exc |-> "", users |-> users \ found]

----------------------------------------------------------------------------
(* src/service/user_service.py *)

(* bcrypt.hashpw(plain, salt) with salt = bcrypt.gensalt() *)
hash_password(plain_password, salt) == <<"$2b$", salt, plain_password>>

(* bcrypt.checkpw: hash the plain password with the salt of the stored hash *)
verify_password(plain_password, password_hash) ==
    password_hash = hash_password(plain_password, password_hash[2])

update_last_login(user_id, fault) ==
    update_user(user_id, [last_login |-> now], fault)

----------------------------------------------------------------------------
(* JWT: src/service/authentication_service.py *)

create_access_token(user_id, email) ==
    [sub |-> user_id, email |-> email, exp |-> now + JWT_EXPIRES_MINUTES,
     sig |-> "good"]

(* jwt.decode: signature first, then the exp claim *)
decode_access_token(token) ==
    IF token.sig # "good" THEN "TokenError"
    ELSE IF now >= token.exp THEN "TokenExpiredError"
    ELSE ""

(* tokens no key holder signed: wrong signature, any claims *)
Forged == {[sub |-> 1, email |-> "x@e", exp |-> MaxClock + 1, sig |-> "bad"]}

(* what a client can present: a token some login issued, or a forged one *)
Tokens == issued \cup Forged

(* mutant: the dependency without the user lookup *)
get_current_user_bearer_nolookup(token) ==
    LET d == decode_access_token(token)
    IN  IF d # "" \/ token.sub = 0
        THEN [ok |-> FALSE, status |-> 401, exc |-> "TokenError",
              user_id |-> NONE, email |-> ""]
        ELSE [ok |-> TRUE, status |-> 200, exc |-> "",
              user_id |-> token.sub, email |-> token.email]

(* mutant: the dependency looking the user up by the email claim *)
get_current_user_bearer_by_email(token) ==
    LET d == decode_access_token(token)
        rej(status, exc) == [ok |-> FALSE, status |-> status, exc |-> exc,
                             user_id |-> NONE, email |-> ""]
    IN  IF d = "TokenExpiredError" THEN rej(401, "TokenExpiredError")
        ELSE IF d = "TokenError" THEN rej(401, "TokenError")
        ELSE IF token.sub = 0 THEN rej(401, "TokenError")
        ELSE IF find_by_email(token.email) = {} THEN rej(401, "UserNotFoundError")
        ELSE [ok |-> TRUE, status |-> 200, exc |-> "",
              user_id |-> token.sub, email |-> token.email]

(* the Depends(get_current_user_bearer) of every protected route *)
get_current_user_bearer(token) ==
    LET d == decode_access_token(token)
        rej(status, exc) == [ok |-> FALSE, status |-> status, exc |-> exc,
                             user_id |-> NONE, email |-> ""]
    IN  IF d = "TokenExpiredError" THEN rej(401, "TokenExpiredError")
        ELSE IF d = "TokenError" THEN rej(401, "TokenError")
        ELSE IF token.sub = 0 THEN rej(401, "TokenError")
        ELSE IF find_by_id(token.sub) = {} THEN rej(401, "UserNotFoundError")
        ELSE [ok |-> TRUE, status |-> 200, exc |-> "",
              user_id |-> token.sub, email |-> token.email]

(* a protected request the dependency rejected: the route body never runs *)
Rejected(op, token, auth, req) ==
    /\ resp' = Resp(op, "", token, NONE, auth.status, auth.exc, {}, "none", req, <<>>)
    /\ UNCHANGED <<users, nextOid, settings, chunking, tempfiles, reg, issued, now, points, nextDoc,
                   collection_ready, collection>>

----------------------------------------------------------------------------
(* POST /auth/register: controller -> AuthenticationService.register ->
   UserService.create_user -> UserRepository.create_user.  The handler awaits
   MongoDB three times (find_one by email, insert_one, find_one by _id); other
   requests run between the awaits. *)

(* mutant: create_user without the existence check *)
create_user_exists_never(email) == FALSE

(* the existence check of UserRepository.create_user *)
create_user_exists(email) == find_by_email(email) # {}

RegisterCall(c, email, password, salt) ==
    LET user_data == [email |-> email,
                      password |-> hash_password(password, salt),
                      created_at |-> now]
    IN  /\ reg[c].pc = "idle"
        /\ IF create_user_exists(email)
           THEN /\ resp' = Resp("register", c, NONE, NONE, 409, "UserExistsError",
                                {"mongo.find_one"}, "none", [email |-> email], <<>>)
                /\ UNCHANGED reg
           ELSE /\ reg' = [reg EXCEPT ![c] =
                              [pc |-> "insert", data |-> user_data, oid |-> NONE]]
                /\ resp' = NoResp
        /\ UNCHANGED <<users, nextOid, settings, chunking, tempfiles, issued, now, points, nextDoc,
                       collection_ready, collection>>

(* collection.insert_one(user_data): MongoDB assigns a new _id *)
RegisterInsert(c) ==
    /\ reg[c].pc = "insert"
    /\ nextOid <= MaxOids
    /\ users' = users \cup
          {[_id |-> ObjectId(nextOid), email |-> reg[c].data.email,
            password |-> reg[c].data.password,
            created_at |-> reg[c].data.created_at,
            updated_at |-> NONE, last_login |-> NONE]}
    /\ nextOid' = nextOid + 1
    /\ reg' = [reg EXCEPT ![c].pc = "fetch", ![c].oid = nextOid]
    /\ resp' = NoResp
    /\ UNCHANGED <<issued, settings, chunking, tempfiles, now, points, nextDoc, collection_ready, collection>>

(* collection.find_one({"_id": result.inserted_id}) and the response *)
RegisterFetch(c) ==
    /\ reg[c].pc = "fetch"
    /\ LET created == find_by_id(reg[c].oid)
           req == [email |-> reg[c].data.email]
       IN  IF created # {}
           THEN LET u == CHOOSE x \in created : TRUE
                IN resp' = Resp("register", c, NONE, NONE, 200, "",
                                {"mongo.find_one", "mongo.insert_one"}, "none", req,
                                [id |-> OidStr(u._id), email |-> u.email,
                                 created_at |-> u.created_at])
           ELSE resp' = Resp("register", c, NONE, NONE, 500, "UserRepositoryError",
                             {"mongo.find_one", "mongo.insert_one"}, "none", req, <<>>)
    /\ reg' = [reg EXCEPT ![c] = Idle]
    /\ UNCHANGED <<users, nextOid, settings, chunking, tempfiles, issued, now, points, nextDoc,
                   collection_ready, collection>>

----------------------------------------------------------------------------
(* POST /auth/login *)

(* the status the login route gives an exception of AuthenticationService.login:
   "except HTTPException: raise; except Exception: 500" *)
login_status(exc) == IF exc = "" THEN 200 ELSE 500

(* AuthenticationService.login up to its first await after the credential
   check: get_user_by_email and verify_password.  A request that passes waits
   in reg[c] for update_last_login; other requests run in between. *)
LoginCall(c, email, password) ==
    /\ reg[c].pc = "idle"
    /\ \E pick \in (IF find_by_email(email) = {} THEN {NONE} ELSE find_by_email(email)) :
         LET found == find_by_email(email) # {}
             req == [email |-> email, password |-> password]
         IN  IF ~found \/ ~verify_password(password, pick.password)
             THEN /\ resp' = Resp("login", c, NONE, NONE,
                                  login_status("InvalidCredentialsError"),
                                  "InvalidCredentialsError", {"mongo.find_one"},
                                  "none", req, <<>>)
                  /\ UNCHANGED reg
             ELSE /\ reg' = [reg EXCEPT ![c] =
                                [pc |-> "login",
                                 data |-> [email |-> pick.email, password |-> password],
                                 oid |-> OidStr(pick._id)]]
                  /\ resp' = NoResp
    /\ UNCHANGED <<users, nextOid, settings, chunking, tempfiles, issued, now, points, nextDoc,
                   collection_ready, collection>>

(* the rest of login: update_last_login, whose UserNotFoundError and
   UserRepositoryError are passed over, then create_access_token.  The fault
   of the response names what failed in the request. *)
LoginUpdate(c, fault) ==
    /\ reg[c].pc = "login"
    /\ LET user_id == reg[c].oid
           req == reg[c].data
           upd == update_last_login(user_id, fault = "update_db")
           (* login swallows UserNotFoundError and UserRepositoryError only *)
           exc == IF upd.exc \in {"UserNotFoundError", "UserRepositoryError"}
                  THEN "" ELSE upd.exc
           failed == IF fault # "none" THEN fault
                     ELSE IF upd.exc = "UserNotFoundError" THEN "update_user_not_found"
                     ELSE IF upd.exc # "" THEN "update_not_modified"
                     ELSE "none"
           calls == IF upd.exc = "UserNotFoundError" THEN {"mongo.find_one"}
                    ELSE {"mongo.find_one", "mongo.update_one"}
           token == create_access_token(user_id, req.email)
       IN  /\ users' = upd.users
           /\ IF exc = ""
              THEN /\ Cardinality(issued \cup {token}) <= MaxTokens
                   /\ issued' = issued \cup {token}
                   /\ resp' = Resp("login", c, NONE, NONE, login_status(""), "",
                                   calls, failed, req, token)
              ELSE /\ UNCHANGED issued
                   /\ resp' = Resp("login", c, NONE, NONE, login_status(exc), exc,
                                   calls, failed, req, <<>>)
    /\ reg' = [reg EXCEPT ![c] = Idle]
    /\ UNCHANGED <<nextOid, settings, chunking, tempfiles, now, points, nextDoc,
                   collection_ready, collection>>

----------------------------------------------------------------------------
(* GET /auth/me, POST /auth/change-password, POST /auth/logout,
   DELETE /auth/account *)

Me(token) ==
    LET auth == get_current_user_bearer(token)
    IN  IF ~auth.ok THEN Rejected("me", token, auth, <<>>)
        ELSE LET found == find_by_id(auth.user_id)
             IN /\ resp' = IF found = {}
                           THEN Resp("me", "", token, auth.user_id, 404, "HTTPException",
                                     {"mongo.find_one"}, "none", <<>>, <<>>)
                           ELSE Resp("me", "", token, auth.user_id, 200, "",
                                     {"mongo.find_one"}, "none", <<>>,
                                     [id |-> auth.user_id,
                                      email |-> (CHOOSE x \in found : TRUE).email])
                /\ UNCHANGED <<users, nextOid, settings, chunking, tempfiles, reg, issued, now, points, nextDoc,
                               collection_ready, collection>>

(* status of the change-password route per exception *)
change_password_status(exc) ==
    CASE exc = "" -> 200
      [] exc = "UserNotFoundError" -> 404
      [] exc = "ValueError" -> 400
      [] OTHER -> 500

(* mutant: change_password without the check of the current password *)
current_password_wrong_never(current_password, password_hash) == FALSE

(* "if not self.verify_password(current_password, user["password"])" *)
current_password_wrong(current_password, password_hash) ==
    ~verify_password(current_password, password_hash)

(* POST /auth/change-password, the dependency: get_current_user_bearer runs
   before the route body.  An accepted request waits in reg[c] for the body;
   other requests run in between. *)
ChangePasswordCall(c, token, current_password, new_password, salt) ==
    LET auth == get_current_user_bearer(token)
        req == [current_password |-> current_password, new_password |-> new_password]
    IN  /\ reg[c].pc = "idle"
        /\ IF ~auth.ok THEN Rejected("change_password", token, auth, req)
           ELSE /\ reg' = [reg EXCEPT ![c] =
                              [pc |-> "change_password",
                               data |-> [token |-> token, req |-> req, salt |-> salt],
                               oid |-> auth.user_id]]
                /\ resp' = NoResp
                /\ UNCHANGED <<users, nextOid, settings, chunking, tempfiles, issued, now,
                               points, nextDoc, collection_ready, collection>>

(* the route body: UserService.change_password and the status of each
   exception.  bcrypt.gensalt() is random: the new hash differs from the
   stored one. *)
ChangePasswordRun(c) ==
    /\ reg[c].pc = "change_password"
    /\ LET user_id == reg[c].oid
           req == reg[c].data.req
           new_hash == hash_password(req.new_password, reg[c].data.salt)
           found == find_by_id(user_id)
           user == CHOOSE x \in found : TRUE
           upd == IF found = {}
                  THEN [exc |-> "UserNotFoundError", users |-> users]
                  ELSE IF current_password_wrong(req.current_password, user.password)
                  THEN [exc |-> "ValueError", users |-> users]
                  ELSE update_password(user_id, new_hash, FALSE)
       IN  /\ (found # {} => new_hash # user.password)
           /\ users' = upd.users
           /\ resp' = Resp("change_password", c, reg[c].data.token, user_id,
                           change_password_status(upd.exc), upd.exc,
                           IF upd.exc \in {"UserNotFoundError", "ValueError"}
                           THEN {"mongo.find_one"}
                           ELSE {"mongo.find_one", "mongo.update_one"},
                           "none", req, <<>>)
    /\ reg' = [reg EXCEPT ![c] = Idle]
    /\ UNCHANGED <<nextOid, settings, chunking, tempfiles, issued, now, points, nextDoc,
                   collection_ready, collection>>

(* mutant: logout drops the process's cached collection state *)
Logout_reset ==
    /\ resp' = Resp("logout", "", NONE, NONE, 200, "", {}, "none", <<>>, <<>>)
    /\ collection_ready' = FALSE
    /\ UNCHANGED <<users, nextOid, settings, chunking, tempfiles, reg, issued, now, points,
                   nextDoc, collection>>

Logout ==
    /\ resp' = Resp("logout", "", NONE, NONE, 200, "", {}, "none", <<>>, <<>>)
    /\ UNCHANGED <<users, nextOid, settings, chunking, tempfiles, reg, issued, now, points, nextDoc,
                   collection_ready, collection>>

(* status of the delete-account route per exception *)
delete_account_status(exc) ==
    CASE exc = "" -> 200
      [] exc = "UserNotFoundError" -> 404
      [] OTHER -> 500

DeleteAccount(token) ==
    LET auth == get_current_user_bearer(token)
    IN  IF ~auth.ok THEN Rejected("delete_account", token, auth, <<>>)
        ELSE LET del == delete_user(auth.user_id)
             IN /\ users' = del.users
                /\ resp' = Resp("delete_account", "", token, auth.user_id,
                                delete_account_status(del.exc), del.exc,
                                {"mongo.find_one", "mongo.delete_one"}, "none", <<>>, <<>>)
                /\ UNCHANGED <<nextOid, settings, chunking, tempfiles, reg, issued, now, points, nextDoc,
                               collection_ready, collection>>

(* time passes *)
Tick ==
    /\ now < MaxClock
    /\ now' = now + 1
    /\ resp' = NoResp
    /\ UNCHANGED <<users, nextOid, settings, chunking, tempfiles, reg, issued, points, nextDoc,
                   collection_ready, collection>>

----------------------------------------------------------------------------
(* src/utils/extractor.py and src/client/embedding_client.py *)

(* str.lower() on the extensions of Files *)
Lower(ext) == IF ext = ".PDF" THEN ".pdf" ELSE ext

(* load_document: the text per format; a PDF page's text is followed by "\n" *)
load_document(file) ==
    LET ext == Lower(file.ext)
    IN  IF ext = ".txt" THEN [exc |-> "", text |-> file.text]
        ELSE IF ext = ".pdf" THEN [exc |-> "", text |-> file.text \o <<"\n">>]
        ELSE IF ext = ".docx" THEN [exc |-> "", text |-> file.text]
        ELSE [exc |-> "FileTypeError", text |-> <<>>]

Count(s, c) == Cardinality({i \in 1..Len(s) : s[i] = c})

(* the output dimension of the model EMBEDDING_MODEL names in the standard
   configuration *)
EMBEDDING_DIM == 2

(* The configuration the process was started with: Settings.VECTOR_SIZE, and
   EMBEDDING_MODEL as the output dimension of the model it names. *)
StandardSettings == [VECTOR_SIZE |-> VECTOR_SIZE, EMBEDDING_MODEL |-> EMBEDDING_DIM]

(* SentenceTransformer.encode: a vector of the model's dimension per text *)
embed(text) ==
    [i \in 1..settings.EMBEDDING_MODEL |-> Count(text, <<"a", "b", "c">>[i])]

(* similarity of a query vector and a stored vector of the same dimension *)
RECURSIVE Dot(_, _, _)
Dot(q, v, n) == IF n = 0 THEN 0 ELSE q[n] * v[n] + Dot(q, v, n - 1)

Score(q, v) == Dot(q, v, Len(q))

----------------------------------------------------------------------------
(* Qdrant collection: src/repository/document_vector_repository.py *)

INDEX_COUNT == 6

(* What Qdrant does to a call of _ensure_collection_exists: nothing, or the
   named client call raises; create_payload_index raises after done indices
   were created. *)
EnsureOk == [step |-> "none", done |-> 0]

EnsureFaults ==
    {[step |-> "collection_exists", done |-> 0],
     [step |-> "create_collection", done |-> 0]} \cup
    {[step |-> "create_payload_index", done |-> k] : k \in 0..(INDEX_COUNT - 1)}

(* mutant: the flag set without asking Qdrant *)
ensure_collection_exists_unchecked(e) ==
    [ready |-> TRUE, collection |-> collection, calls |-> {}, exc |-> ""]

(* _ensure_collection_exists: [ready, collection, calls, exc] after the call *)
ensure_collection_exists(e) ==
    LET raised(coll, calls) ==
            [ready |-> FALSE, collection |-> coll, calls |-> calls,
             exc |-> "VectorCollectionError"]
    IN  IF collection_ready
        THEN [ready |-> TRUE, collection |-> collection, calls |-> {}, exc |-> ""]
        ELSE IF e.step = "collection_exists"
        THEN raised(collection, {"qdrant.collection_exists"})
        ELSE IF collection.exists
        THEN [ready |-> TRUE, collection |-> collection,
              calls |-> {"qdrant.collection_exists"}, exc |-> ""]
        ELSE IF e.step = "create_collection"
        THEN raised(collection, {"qdrant.collection_exists", "qdrant.create_collection"})
        ELSE IF e.step = "create_payload_index"
        THEN raised([exists |-> TRUE, size |-> settings.VECTOR_SIZE, indices |-> e.done],
                    {"qdrant.collection_exists", "qdrant.create_collection",
                     "qdrant.create_payload_index"})
        ELSE [ready |-> TRUE,
              collection |-> [exists |-> TRUE, size |-> settings.VECTOR_SIZE,
                              indices |-> INDEX_COUNT],
              calls |-> {"qdrant.collection_exists", "qdrant.create_collection",
                         "qdrant.create_payload_index"},
              exc |-> ""]

(* Filter(must=[doc_id == d, user_id == u]); "if user_id:" drops the second
   condition for an empty user id *)
doc_filter(doc_id, user_id) ==
    {p \in points : /\ p.payload.doc_id = doc_id
                    /\ (user_id # 0 => p.payload.user_id = user_id)}

(* Filter(must=[user_id == u]) *)
user_filter(user_id) ==
    {p \in points : user_id # 0 => p.payload.user_id = user_id}

(* client.scroll(filter, limit): the pages it can return *)
scroll(matching, limit) ==
    {S \in SUBSET matching : Cardinality(S) = Min(limit, Cardinality(matching))}

(* client.query_points(query, filter, limit): the top-limit matches by score *)
query_points(query_vector, matching, limit) ==
    {S \in SUBSET matching :
        /\ Cardinality(S) = Min(limit, Cardinality(matching))
        /\ \A p \in S, q \in matching \ S :
              Score(query_vector, p.vector) >= Score(query_vector, q.vector)}

(* client.delete(points_selector=filter) *)
delete_points(matching) == points \ matching

(* mutant: delete only the points one scroll page returned *)
delete_points_by_doc_id_page(doc_id, user_id) ==
    points \ (CHOOSE S \in scroll(doc_filter(doc_id, user_id), SCROLL_LIMIT) : TRUE)

delete_points_by_doc_id(doc_id, user_id) == delete_points(doc_filter(doc_id, user_id))

(* mutant: the upsert leaves only the points of the request in the collection *)
upsert_only_new(new) == new

(* mutant: an upsert that stores the first point of the batch only *)
upsert_first_only(new) == points \cup {n \in new : n.payload.chunk_index = 0}

(* client.upsert: a point replaces the stored point of the same id *)
upsert(new) == {p \in points : \A n \in new : n.id # p.id} \cup new

(* mutant: vectors of any dimension are stored *)
upsert_refused_never(new, size) == FALSE

(* client.upsert raises for a vector whose dimension is not the collection's;
   save_points turns it into PointError *)
upsert_refused(new, size) == \E n \in new : Len(n.vector) # size

----------------------------------------------------------------------------
(* src/service/document_service.py *)

SUPPORTED == {".txt", ".pdf", ".docx"}

(* mutant: the validation without the extension check *)
upload_validation_noext(file) ==
    IF file.stem = "" /\ file.ext = "" THEN "FileTypeError" ELSE ""

(* the validation at the top of upload_document, before its try block *)
upload_validation(file) ==
    IF file.stem = "" /\ file.ext = "" THEN "FileTypeError"
    ELSE IF Lower(file.ext) \notin SUPPORTED THEN "FileTypeError"
    ELSE ""

(* the reads extract_from_txt makes: a second one, as latin-1, when the first
   raised UnicodeDecodeError (fault "decode": bytes that are not UTF-8) *)
extract_reads(file, fault) ==
    IF Lower(file.ext) = ".txt" /\ fault = "decode"
    THEN {"tempfile", "extract", "extract.latin-1"}
    ELSE {"tempfile", "extract"}

(* temp_file_path when the finally clause of _process_document runs: it is
   assigned after "await file.read()" and temp_file.write, inside the with
   block that created the file (fault "read": one of the two raises) *)
temp_file_path(fault) == IF fault = "read" THEN NONE ELSE 1

(* "if temp_file_path and os.path.exists(temp_file_path): os.unlink(...)":
   the files NamedTemporaryFile(delete=False) created that are still there *)
temp_files_left(fault) == IF temp_file_path(fault) # NONE THEN 0 ELSE 1

(* _process_document: [exc, chunks_data, calls, left] *)
process_document(file, fault) ==
    LET loaded == load_document(file)
        reads == extract_reads(file, fault)
        text == loaded.text
        chunks == chunker(text)
        chunk_texts == SelectSeq(chunks, LAMBDA c : Strip(c) # <<>>)
        fail(exc, calls) == [exc |-> exc, chunks_data |-> <<>>, calls |-> calls,
                             left |-> temp_files_left(fault)]
    IN  IF fault = "read"
        THEN fail("FileProcessingError", {"tempfile"})
        ELSE IF fault = "extract"
        THEN fail("FileProcessingError", reads)
        ELSE IF loaded.exc # ""
        THEN fail("FileProcessingError", reads)
        ELSE IF Strip(text) = <<>>
        THEN fail("EmptyDocumentError", reads)
        ELSE IF chunks = <<>>
        THEN fail("ChunkingError", reads)
        ELSE IF chunk_texts = <<>>
        THEN fail("EmptyDocumentError", reads)
        ELSE IF fault = "embed"
        THEN fail("EmbeddingError", reads \cup {"embed"})
        ELSE [exc |-> "",
              chunks_data |-> [i \in 1..Len(chunk_texts) |->
                                 [text |-> chunk_texts[i], embedding |-> embed(chunk_texts[i])]],
              calls |-> reads \cup {"embed"},
              left |-> temp_files_left(fault)]

(* the except clauses that close the try block of upload_document *)
upload_reraise(exc) ==
    IF exc \in {"", "VectorCollectionError", "PointError"} THEN exc
    ELSE "DocumentRepositoryError"

(* mutant: the point id derived from the chunk index alone *)
point_id_by_index(doc_id, i) == <<0, i>>

(* uuid.uuid5(uuid.UUID(doc_id), str(i)): one id per (doc_id, i) *)
point_id(doc_id, i) == <<doc_id, i>>

(* mutant: chunks numbered from 1 *)
enumerate_index_from_one(i) == i

(* enumerate(chunks_data): the index of the i-th element *)
enumerate_index(i) == i - 1

(* the points upload_document builds for doc_id *)
build_points(doc_id, user_id, file, chunks_data) ==
    LET ext == Lower(file.ext)
        filename == <<file.stem, file.ext>>
        doc_metadata == [doc_id |-> doc_id, user_id |-> user_id, filename |-> filename,
                         file_type |-> ext, chunks_count |-> Len(chunks_data),
                         created_at |-> now]
    IN  { [id |-> point_id(doc_id, enumerate_index(i)),
           vector |-> chunks_data[i].embedding,
           payload |-> [doc_id |-> doc_id, user_id |-> user_id,
                        chunk_text |-> chunks_data[i].text,
                        chunk_index |-> enumerate_index(i),
                        filename |-> filename, file_type |-> ext,
                        created_at |-> now, doc_metadata |-> doc_metadata]]
          : i \in 1..Len(chunks_data) }

(* mutant: the upload route answering 200 whatever was raised *)
upload_status_always_ok(exc) == 200

(* status of the upload route per exception *)
upload_status(exc) ==
    CASE exc = "" -> 200
      [] exc \in {"FileTypeError", "EmptyDocumentError", "ChunkingError"} -> 400
      [] OTHER -> 500

(* status of the list, get, delete and search routes per exception *)
document_status(exc) ==
    CASE exc = "" -> 200
      [] exc = "DocumentNotFoundError" -> 404
      [] exc = "EmptyDocumentError" -> 400
      [] OTHER -> 500

----------------------------------------------------------------------------
(* POST /api/documents/upload.  uuid4 is modelled by the counter nextDoc; the
   id of an upload that stores nothing is never seen again. *)
Upload(token, file, fault, e) ==
    LET auth == get_current_user_bearer(token)
        req == [file |-> file]
        doc_id == nextDoc
        invalid == upload_validation(file)
        proc == process_document(file, fault)
        ens == ensure_collection_exists(e)
        new == build_points(doc_id, auth.user_id, file, proc.chunks_data)
        baddim == upsert_refused(new, ens.collection.size)
        answer(exc, calls, body) ==
            resp' = Resp("upload", "", token, auth.user_id, upload_status(exc), exc,
                         calls, IF exc = "VectorCollectionError" THEN "ensure" ELSE fault,
                         req, body)
    IN  IF ~auth.ok THEN Rejected("upload", token, auth, req)
        ELSE /\ nextDoc <= MaxDocs
             /\ UNCHANGED <<users, nextOid, settings, chunking, reg, issued, now>>
             /\ tempfiles' = IF invalid # "" THEN tempfiles ELSE tempfiles + proc.left
             /\ tempfiles' <= MaxTemp
             /\ IF invalid # ""
                THEN /\ answer(invalid, {}, <<>>)
                     /\ UNCHANGED <<points, nextDoc, collection_ready, collection>>
                ELSE IF proc.exc # ""
                THEN /\ answer(upload_reraise(proc.exc), proc.calls, <<>>)
                     /\ UNCHANGED <<points, nextDoc, collection_ready, collection>>
                ELSE /\ collection_ready' = ens.ready
                     /\ collection' = ens.collection
                     /\ IF ens.exc # ""
                        THEN /\ answer(upload_reraise(ens.exc), proc.calls \cup ens.calls, <<>>)
                             /\ UNCHANGED <<points, nextDoc>>
                        ELSE IF fault = "qdrant" \/ baddim
                        THEN /\ answer(upload_reraise("PointError"),
                                       proc.calls \cup ens.calls \cup {"qdrant.upsert"}, <<>>)
                             /\ UNCHANGED <<points, nextDoc>>
                        ELSE /\ points' = upsert(new)
                             /\ nextDoc' = nextDoc + 1
                             /\ answer("", proc.calls \cup ens.calls \cup {"qdrant.upsert"},
                                       [doc_id |-> doc_id,
                                        filename |-> <<file.stem, file.ext>>,
                                        file_type |-> Lower(file.ext),
                                        chunks_count |-> Len(proc.chunks_data)])

(* get_unique_documents: the metadata of the first point seen per doc_id *)
unique_documents(page) ==
    {p.payload.doc_metadata : p \in page}

(* the points list_user_documents scrolls over *)
list_scope(user_id) == user_filter(user_id)

(* GET /api/documents *)
(* the except clauses that close the try block of list_user_documents *)
list_reraise(exc) ==
    IF exc \in {"", "PointError"} THEN exc ELSE "DocumentRepositoryError"

ListDocs(token, e) ==
    LET auth == get_current_user_bearer(token)
        ens == ensure_collection_exists(e)
    IN  IF ~auth.ok THEN Rejected("list", token, auth, <<>>)
        ELSE /\ collection_ready' = ens.ready
             /\ collection' = ens.collection
             /\ UNCHANGED <<users, nextOid, settings, chunking, tempfiles, reg, issued, now, points, nextDoc>>
             /\ IF ens.exc # ""
                THEN resp' = Resp("list", "", token, auth.user_id,
                                  document_status(list_reraise(ens.exc)),
                                  list_reraise(ens.exc), ens.calls, "ensure", <<>>, <<>>)
                ELSE \E page \in scroll(list_scope(auth.user_id), SCROLL_LIMIT) :
                       resp' = Resp("list", "", token, auth.user_id, 200, "",
                                    ens.calls \cup {"qdrant.scroll"}, "none", <<>>,
                                    unique_documents(page))

(* mutant: the ownership check without the user_id condition *)
get_points_by_doc_id_any(doc_id, user_id) ==
    scroll(doc_filter(doc_id, 0), SCROLL_LIMIT)

(* get_points_by_doc_id: the pages one scroll call can return *)
get_points_by_doc_id(doc_id, user_id) ==
    scroll(doc_filter(doc_id, user_id), SCROLL_LIMIT)

(* GET /api/documents/{doc_id} *)
GetDoc(token, doc_id, e) ==
    LET auth == get_current_user_bearer(token)
        ens == ensure_collection_exists(e)
        req == [doc_id |-> doc_id]
        answer(exc, body) ==
            resp' = Resp("get", "", token, auth.user_id, document_status(exc), exc,
                         ens.calls \cup {"qdrant.scroll"}, "none", req, body)
    IN  IF ~auth.ok THEN Rejected("get", token, auth, req)
        ELSE /\ collection_ready' = ens.ready
             /\ collection' = ens.collection
             /\ UNCHANGED <<users, nextOid, settings, chunking, tempfiles, reg, issued, now, points, nextDoc>>
             /\ IF ens.exc # ""
                THEN resp' = Resp("get", "", token, auth.user_id, document_status(ens.exc),
                                  ens.exc, ens.calls, "ensure", req, <<>>)
                ELSE
                \E chunks \in get_points_by_doc_id(doc_id, auth.user_id) :
                   IF chunks = {} THEN answer("DocumentNotFoundError", <<>>)
                   ELSE \E first \in chunks :
                          LET m == first.payload.doc_metadata
                          IN answer("", [id |-> m.doc_id, doc_id |-> m.doc_id,
                                         filename |-> m.filename,
                                         file_type |-> m.file_type,
                                         chunks_count |-> Cardinality(chunks),
                                         created_at |-> m.created_at,
                                         user_id |-> m.user_id])

(* DELETE /api/documents/{doc_id} *)
DeleteDoc(token, doc_id, e) ==
    LET auth == get_current_user_bearer(token)
        ens == ensure_collection_exists(e)
        req == [doc_id |-> doc_id]
        answer(exc, calls) ==
            resp' = Resp("delete", "", token, auth.user_id, document_status(exc), exc,
                         ens.calls \cup calls, "none", req, <<>>)
    IN  IF ~auth.ok THEN Rejected("delete", token, auth, req)
        ELSE /\ collection_ready' = ens.ready
             /\ collection' = ens.collection
             /\ UNCHANGED <<users, nextOid, settings, chunking, tempfiles, reg, issued, now, nextDoc>>
             /\ IF ens.exc # ""
                THEN /\ resp' = Resp("delete", "", token, auth.user_id,
                                     document_status(ens.exc), ens.exc, ens.calls,
                                     "ensure", req, <<>>)
                     /\ UNCHANGED points
                ELSE
                \E chunks \in get_points_by_doc_id(doc_id, auth.user_id) :
                   IF chunks = {}
                   THEN /\ answer("DocumentNotFoundError", {"qdrant.scroll"})
                        /\ UNCHANGED points
                   ELSE /\ points' = delete_points_by_doc_id(doc_id, auth.user_id)
                        /\ answer("", {"qdrant.scroll", "qdrant.delete"})

(* the projection of a scored point in search_user_documents *)
search_item(query_vector, p) ==
    [doc_id |-> p.payload.doc_id, filename |-> p.payload.filename,
     chunk_text |-> p.payload.chunk_text,
     score |-> Score(query_vector, p.vector),
     chunk_index |-> p.payload.chunk_index]

(* mutant: the search without the user_id filter *)
search_scope_all(user_id) == points

(* the points search_user_documents asks Qdrant to rank *)
search_scope(user_id) == user_filter(user_id)

(* mutant: the emptiness test without strip() *)
query_is_empty_nostrip(query) == query = <<>>

(* "if not query.strip()" of search_user_documents *)
query_is_empty(query) == Strip(query) = <<>>

(* POST /api/documents/search *)
Search(token, query, top_k, e) ==
    LET auth == get_current_user_bearer(token)
        ens == ensure_collection_exists(e)
        req == [query |-> query, top_k |-> top_k]
        query_embedding == embed(query)
        answer(exc, calls, body) ==
            resp' = Resp("search", "", token, auth.user_id, document_status(exc), exc,
                         calls, "none", req, body)
    IN  IF ~auth.ok THEN Rejected("search", token, auth, req)
        ELSE /\ UNCHANGED <<users, nextOid, settings, chunking, tempfiles, reg, issued, now, points, nextDoc>>
             /\ IF query_is_empty(query)
                THEN /\ answer("EmptyDocumentError", {}, <<>>)
                     /\ UNCHANGED <<collection_ready, collection>>
                ELSE /\ collection_ready' = ens.ready
                     /\ collection' = ens.collection
                     /\ IF ens.exc # ""
                        THEN resp' = Resp("search", "", token, auth.user_id,
                                          document_status(ens.exc), ens.exc,
                                          {"embed"} \cup ens.calls, "ensure", req, <<>>)
                        ELSE IF Len(query_embedding) # ens.collection.size
                        THEN answer("PointError",
                                    {"embed", "qdrant.query_points"} \cup ens.calls, <<>>)
                        ELSE \E results \in query_points(query_embedding,
                                                         search_scope(auth.user_id), top_k) :
                               answer("", {"embed", "qdrant.query_points"} \cup ens.calls,
                                      {search_item(query_embedding, p) : p \in results})

----------------------------------------------------------------------------
(* chunker(text, size, overlap) followed pass by pass: src/utils/chunker.py.
   chunking.pc is "call" before the first line, "loop" at the while test and
   "done" after return. *)

(* the i-th token of the sample texts: a b c d a b ... *)
Token(i) == << <<"a", "b", "c", "d">>[((i - 1) % 4) + 1] >>

Words(n) == [i \in 1..n |-> Token(i)]

(* texts of 0..MaxLen tokens, and texts with the space runs, line breaks and
   other characters clean_text normalises *)
ChunkTexts ==
    {Join(Words(n)) : n \in 0..MaxLen} \cup
    { <<" ", "a", " ", " ", "b", "\n", "\n", "c", " ">>,
      <<"a", "~", "~", "b", " ", "c", "\n", "d">>,
      <<"~", " ", "\n">> }

(* the passes a terminating call can need, and one more *)
MaxPasses == MaxLen + 1

(* everything but the chunker call *)
service == <<users, nextOid, reg, issued, now, points, nextDoc,
             collection_ready, collection, resp, settings, tempfiles>>

(* cleaned_text = clean_text(text); seq = cleaned_text.split(); chunks = [];
   start = 0 *)
ChunkerCall ==
    /\ chunking.pc = "call"
    /\ chunking' = [chunking EXCEPT !.seq = Split(clean_text(chunking.text)),
                                    !.chunks = <<>>, !.start = 0, !.pc = "loop"]
    /\ UNCHANGED service

(* one pass of the while loop whose test holds: append the chunk, break at the
   end of seq, else move start on *)
ChunkerPass ==
    /\ chunking.pc = "loop"
    /\ chunking.start < Len(chunking.seq)
    /\ Len(chunking.chunks) < MaxPasses
    /\ LET end == chunking.start + chunking.size
           chunk == Join(Slice(chunking.seq, chunking.start, end))
       IN  chunking' =
             [chunking EXCEPT
                !.chunks = Append(chunking.chunks, chunk),
                !.pc = IF end >= Len(chunking.seq) THEN "done" ELSE "loop",
                !.start = IF end >= Len(chunking.seq) THEN chunking.start
                          ELSE next_start(chunking.start, chunking.size,
                                          chunking.overlap)]
    /\ UNCHANGED service

(* the while test fails: return chunks *)
ChunkerReturn ==
    /\ chunking.pc = "loop"
    /\ ~(chunking.start < Len(chunking.seq))
    /\ chunking' = [chunking EXCEPT !.pc = "done"]
    /\ UNCHANGED service

----------------------------------------------------------------------------
(* The state after construction: empty stores, no request in flight *)
Init ==
    /\ users = {}
    /\ nextOid = 1
    /\ reg = [c \in Clients |-> Idle]
    /\ issued = {}
    /\ now = 0
    /\ points = {}
    /\ nextDoc = 1
    /\ collection_ready = FALSE
    /\ collection = [exists |-> FALSE, size |-> 0, indices |-> 0]
    /\ resp = NoResp
    /\ settings = StandardSettings
    /\ chunking = NoChunking
    /\ tempfiles = 0

DocIds == 1..MaxDocs

(* the uploads tried: every file without a fault, one good file with each fault *)
UploadCases ==
    {<<f, "none">> : f \in Files} \cup
    {<<File("n", ".txt", <<"a">>), x>> : x \in {"extract", "decode", "embed", "qdrant"}}

(* registration, login and account deletion *)
NextAuth ==
    \/ \E c \in Clients, e \in Emails : RegisterCall(c, e, "p1", "s1")
    \/ \E c \in Clients : RegisterInsert(c)
    \/ \E c \in Clients : RegisterFetch(c)
    \/ \E c \in Clients, e \in Emails, p \in Passwords : LoginCall(c, e, p)
    \/ \E c \in Clients, f \in {"none", "update_db"} : LoginUpdate(c, f)
    \/ \E t \in Tokens : DeleteAccount(t)
    \/ Logout
    \/ Tick

(* the protected routes *)
NextDocs ==
    \/ \E t \in Tokens, u \in UploadCases : Upload(t, u[1], u[2], EnsureOk)
    \/ \E t \in Tokens : ListDocs(t, EnsureOk)
    \/ \E t \in Tokens, d \in DocIds : GetDoc(t, d, EnsureOk)
    \/ \E t \in Tokens, d \in DocIds : DeleteDoc(t, d, EnsureOk)
    \/ \E t \in Tokens, q \in Queries, k \in TopKs : Search(t, q, k, EnsureOk)
    \/ \E t \in Tokens : Me(t)
    \/ \E t \in Tokens : DeleteAccount(t)
    \/ Logout
    \/ Tick

(* password changes, next to logins, account deletion and protected requests *)
NextPassword ==
    \/ \E c \in Clients, t \in Tokens, cur \in Passwords, new \in Passwords, salt \in Salts :
          ChangePasswordCall(c, t, cur, new, salt)
    \/ \E c \in Clients : ChangePasswordRun(c)
    \/ \E c \in Clients, e \in Emails, p \in Passwords : LoginCall(c, e, p)
    \/ \E c \in Clients, f \in {"none", "update_db"} : LoginUpdate(c, f)
    \/ \E t \in Tokens : DeleteAccount(t)
    \/ \E t \in Tokens : Me(t)
    \/ \E t \in Tokens : Upload(t, File("n", ".txt", <<"a">>), "none", EnsureOk)
    \/ \E t \in Tokens : ListDocs(t, EnsureOk)
    \/ \E t \in Tokens, d \in DocIds : GetDoc(t, d, EnsureOk)
    \/ \E t \in Tokens, d \in DocIds : DeleteDoc(t, d, EnsureOk)
    \/ \E t \in Tokens : Search(t, <<"a">>, 5, EnsureOk)
    \/ Tick

(* every route but change-password *)
NextLife == NextAuth \/ NextDocs

Next == NextLife \/ NextPassword

(* the whole service from empty stores *)
Spec == Init /\ [][Next]_vars

(* registration and login from empty stores *)
SpecAuth == Init /\ [][NextAuth]_vars

(* Two users registered and logged in at time 0: the state NextAuth reaches by
   register(x@e), register(y@e), login(x@e), login(y@e). *)
Account(n, email) ==
    [_id |-> ObjectId(n), email |-> email, password |-> hash_password("p1", "s1"),
     created_at |-> 0, updated_at |-> 0, last_login |-> 0]

InitDocs ==
    /\ users = {Account(1, "x@e"), Account(2, "y@e")}
    /\ nextOid = 3
    /\ reg = [c \in Clients |-> Idle]
    /\ issued = {[sub |-> 1, email |-> "x@e", exp |-> JWT_EXPIRES_MINUTES, sig |-> "good"],
                 [sub |-> 2, email |-> "y@e", exp |-> JWT_EXPIRES_MINUTES, sig |-> "good"]}
    /\ now = 0
    /\ points = {}
    /\ nextDoc = 1
    /\ collection_ready = FALSE
    /\ collection = [exists |-> FALSE, size |-> 0, indices |-> 0]
    /\ resp = NoResp
    /\ settings = StandardSettings
    /\ chunking = NoChunking
    /\ tempfiles = 0

(* the protected routes used by two logged-in users *)
SpecDocs == InitDocs /\ [][NextDocs]_vars

(* One user registered and logged in at time 0 who uploaded r.PDF: the state
   Next reaches by register(x@e), login(x@e), upload(r.PDF). *)
InitLife ==
    /\ users = {Account(1, "x@e")}
    /\ nextOid = 2
    /\ reg = [c \in Clients |-> Idle]
    /\ issued = {[sub |-> 1, email |-> "x@e", exp |-> JWT_EXPIRES_MINUTES, sig |-> "good"]}
    /\ now = 0
    /\ settings = StandardSettings
    /\ points = build_points(1, 1, File("r", ".PDF", <<"a", " ", "b", " ", "c", " ", "d">>),
                             process_document(
                                File("r", ".PDF", <<"a", " ", "b", " ", "c", " ", "d">>),
                                "none").chunks_data)
    /\ nextDoc = 2
    /\ collection_ready = TRUE
    /\ collection = [exists |-> TRUE, size |-> VECTOR_SIZE, indices |-> INDEX_COUNT]
    /\ resp = NoResp
    /\ chunking = NoChunking
    /\ tempfiles = 0

(* every route, with a document stored *)
SpecLife == InitLife /\ [][NextLife]_vars

(* password changes by a registered user with a stored document *)
SpecPassword == InitLife /\ [][NextPassword]_vars

(* Two logged-in users and a process started with any pair of VECTOR_SIZE and
   embedding dimension *)
Dimensions == {1, 2}

InitConfig ==
    /\ users = {Account(1, "x@e"), Account(2, "y@e")}
    /\ nextOid = 3
    /\ reg = [c \in Clients |-> Idle]
    /\ issued = {[sub |-> 1, email |-> "x@e", exp |-> JWT_EXPIRES_MINUTES, sig |-> "good"],
                 [sub |-> 2, email |-> "y@e", exp |-> JWT_EXPIRES_MINUTES, sig |-> "good"]}
    /\ now = 0
    /\ points = {}
    /\ nextDoc = 1
    /\ collection_ready = FALSE
    /\ collection = [exists |-> FALSE, size |-> 0, indices |-> 0]
    /\ resp = NoResp
    /\ settings \in [VECTOR_SIZE : Dimensions, EMBEDDING_MODEL : Dimensions]
    /\ chunking = NoChunking
    /\ tempfiles = 0

(* the routes that reach the vector store *)
NextConfig ==
    \/ \E t \in Tokens, u \in UploadCases : Upload(t, u[1], u[2], EnsureOk)
    \/ \E t \in Tokens : ListDocs(t, EnsureOk)
    \/ \E t \in Tokens, d \in DocIds : DeleteDoc(t, d, EnsureOk)
    \/ \E t \in Tokens, q \in Queries, k \in TopKs : Search(t, q, k, EnsureOk)
    \/ Tick

SpecConfig == InitConfig /\ [][NextConfig]_vars

(* uploads whose file cannot be read or processed, next to the good ones *)
TempCases == UploadCases \cup {<<File("n", ".txt", <<"a">>), "read">>}

NextTemp ==
    \/ \E t \in Tokens, u \in TempCases : Upload(t, u[1], u[2], EnsureOk)
    \/ \E t \in Tokens, d \in DocIds : DeleteDoc(t, d, EnsureOk)
    \/ Tick

SpecTemp == InitDocs /\ [][NextTemp]_vars

(* the document routes while Qdrant may fail any call of
   _ensure_collection_exists *)
NextCollection ==
    \/ \E t \in Tokens, e \in EnsureFaults \cup {EnsureOk} :
          Upload(t, File("n", ".txt", <<"a">>), "none", e)
    \/ \E t \in Tokens, e \in EnsureFaults \cup {EnsureOk} : ListDocs(t, e)
    \/ \E t \in Tokens, d \in DocIds, e \in EnsureFaults \cup {EnsureOk} : GetDoc(t, d, e)
    \/ \E t \in Tokens, d \in DocIds, e \in EnsureFaults \cup {EnsureOk} : DeleteDoc(t, d, e)
    \/ \E t \in Tokens, q \in Queries, e \in EnsureFaults \cup {EnsureOk} :
          Search(t, q, 5, e)
    \/ Tick

SpecCollection == InitDocs /\ [][NextCollection]_vars

(* a call of chunker with a text, a CHUNK_SIZE >= 1 and an OVERLAP in
   0..CHUNK_SIZE *)
InitChunker ==
    /\ users = {}
    /\ nextOid = 1
    /\ reg = [c \in Clients |-> Idle]
    /\ issued = {}
    /\ now = 0
    /\ points = {}
    /\ nextDoc = 1
    /\ collection_ready = FALSE
    /\ collection = [exists |-> FALSE, size |-> 0, indices |-> 0]
    /\ resp = NoResp
    /\ settings = StandardSettings
    /\ chunking \in
          { [text |-> t, seq |-> <<>>, size |-> sz, overlap |-> ov, start |-> 0,
             chunks |-> <<>>, pc |-> "call"] :
            t \in ChunkTexts, sz \in 1..MaxSize, ov \in 0..MaxSize }
    /\ tempfiles = 0

NextChunker == ChunkerCall \/ ChunkerPass \/ ChunkerReturn

SpecChunker == InitChunker /\ [][NextChunker]_vars

----------------------------------------------------------------------------
(* Properties *)

Owns(user_id, doc_id) ==
    \E p \in points : p.payload.doc_id = doc_id /\ p.payload.user_id = user_id

PointsOf(doc_id) == {p \in points : p.payload.doc_id = doc_id}

(* C1: read isolation.  Every item a search, a list or a get returns to the
   authenticated requester comes from a stored point whose payload user_id is
   the requester; a get of a document whose chunks all belong to another user
   is answered 404 with DocumentNotFoundError. *)
C1_ReadIsolation ==
    /\ (resp.op = "search" /\ resp.status = 200) =>
          \A it \in resp.body :
             /\ \E p \in points : p.id = <<it.doc_id, it.chunk_index>>
             /\ \A p \in points : p.id = <<it.doc_id, it.chunk_index>> =>
                   p.payload.user_id = resp.user
    /\ (resp.op = "list" /\ resp.status = 200) =>
          \A m \in resp.body :
             /\ m.user_id = resp.user
             /\ PointsOf(m.doc_id) # {}
             /\ \A p \in PointsOf(m.doc_id) : p.payload.user_id = resp.user
    /\ (resp.op = "get" /\ resp.status = 200) =>
          /\ resp.body.user_id = resp.user
          /\ resp.body.doc_id = resp.req.doc_id
          /\ \A p \in PointsOf(resp.body.doc_id) : p.payload.user_id = resp.user
    /\ (/\ resp.op = "get"
        /\ resp.user # NONE
        /\ PointsOf(resp.req.doc_id) # {}
        /\ \A p \in PointsOf(resp.req.doc_id) : p.payload.user_id # resp.user) =>
          resp.status = 404 /\ resp.exc = "DocumentNotFoundError"

(* a search that returned chunks while another user's chunks are stored *)
C1_Witness ==
    /\ resp.op = "search"
    /\ resp.status = 200
    /\ resp.body # {}
    /\ \E p \in points : p.payload.user_id # resp.user

(* C2: deleting a document of which the requester owns no chunk (unknown, or
   another user's) is answered 404 with DocumentNotFoundError and leaves the
   stored points as they were. *)
C2_DeleteNotOwned ==
    [][ (/\ resp'.op = "delete"
         /\ resp'.user # NONE
         /\ ~Owns(resp'.user, resp'.req.doc_id)) =>
           /\ resp'.status = 404
           /\ resp'.exc = "DocumentNotFoundError"
           /\ points' = points ]_vars

(* a delete of another user's stored document answered 404 *)
C2_Witness ==
    /\ resp.op = "delete"
    /\ resp.status = 404
    /\ PointsOf(resp.req.doc_id) # {}
    /\ ~Owns(resp.user, resp.req.doc_id)

BadFileName(file) ==
    \/ file.stem = "" /\ file.ext = ""
    \/ Lower(file.ext) \notin {".txt", ".pdf", ".docx"}

(* C3: an upload whose file name is missing or whose lowercased extension is
   not .txt, .pdf or .docx is answered 400 before any temp file is written, any
   embedding is computed or any point is upserted. *)
C3_UploadBadType ==
    [][ (/\ resp'.op = "upload"
         /\ resp'.user # NONE
         /\ BadFileName(resp'.req.file)) =>
           /\ resp'.status = 400
           /\ resp'.calls = {}
           /\ points' = points ]_vars

(* an authenticated upload of an .exe file answered 400 *)
C3_Witness ==
    /\ resp.op = "upload"
    /\ resp.user # NONE
    /\ resp.req.file.ext = ".exe"
    /\ resp.status = 400

(* C4: a search with an empty or whitespace-only query is answered 400 with
   EmptyDocumentError, and neither the embedder nor the vector store is called. *)
C4_SearchEmptyQuery ==
    (/\ resp.op = "search"
     /\ resp.user # NONE
     /\ \A i \in 1..Len(resp.req.query) : IsSpace(resp.req.query[i])) =>
       /\ resp.status = 400
       /\ resp.exc = "EmptyDocumentError"
       /\ resp.calls = {}

(* an authenticated search with a whitespace-only query answered 400 *)
C4_Witness ==
    /\ resp.op = "search"
    /\ resp.user # NONE
    /\ resp.req.query = <<" ">>
    /\ resp.status = 400

(* C5: on upload each domain exception of the processing reaches the HTTP layer
   as itself: a supported file whose text is empty or whitespace-only, or from
   which no chunk can be built, is answered 400 (EmptyDocumentError,
   ChunkingError); EmbeddingError and FileProcessingError are answered 500. *)
C5_UploadDomainStatus ==
    (resp.op = "upload" /\ resp.user # NONE /\ ~BadFileName(resp.req.file)) =>
       LET text == load_document(resp.req.file).text
       IN  /\ (resp.fault = "none" /\ Strip(text) = <<>>) =>
                 resp.status = 400 /\ resp.exc = "EmptyDocumentError"
           /\ (resp.fault = "none" /\ Strip(text) # <<>> /\ chunker(text) = <<>>) =>
                 resp.status = 400 /\ resp.exc = "ChunkingError"
           /\ resp.fault = "embed" =>
                 resp.status = 500 /\ resp.exc = "EmbeddingError"
           /\ resp.fault = "extract" =>
                 resp.status = 500 /\ resp.exc = "FileProcessingError"

DomainExceptions ==
    {"InvalidCredentialsError", "UserNotFoundError", "UserExistsError",
     "UserUpdateError", "UserDeleteError", "UserRepositoryError",
     "TokenError", "TokenExpiredError"}

(* C6: a login with an unknown email or a wrong password issues no token and
   raises InvalidCredentialsError, which gets a client-error status of its own;
   /auth/login answers 500 only for exceptions that are not domain exceptions. *)
C6_LoginInvalidCredentials ==
    resp.op = "login" =>
       /\ (~\E u \in users : /\ u.email = resp.req.email
                             /\ verify_password(resp.req.password, u.password)) =>
             /\ resp.exc = "InvalidCredentialsError"
             /\ resp.status \in 400..499
       /\ resp.status = 500 => resp.exc \notin DomainExceptions

(* C7: email identifies the account: the users collection never holds two
   records with the same email, under any interleaving of register requests. *)
C7_EmailUnique ==
    \A u, v \in users : u.email = v.email => u = v

(* client c's register request arrives in this step *)
RegisterArrives(c) ==
    /\ reg[c].pc = "idle"
    /\ \/ reg'[c].pc = "insert"
       \/ resp'.op = "register" /\ resp'.client = c

RegisterEmail(c) ==
    IF reg'[c].pc = "insert" THEN reg'[c].data.email ELSE resp'.req.email

(* C8: a register request for an email that already has a record when it
   arrives is answered 409 and leaves the users collection unchanged. *)
C8_RegisterExisting ==
    [][ \A c \in Clients :
          (RegisterArrives(c) /\ \E u \in users : u.email = RegisterEmail(c)) =>
             /\ resp'.op = "register"
             /\ resp'.client = c
             /\ resp'.status = 409
             /\ resp'.exc = "UserExistsError"
             /\ users' = users ]_vars

(* a register request answered 409 while the record of that email is stored *)
C8_Witness ==
    /\ resp.op = "register"
    /\ resp.status = 409
    /\ \E u \in users : u.email = resp.req.email /\ u.created_at < now

Protected ==
    {"upload", "list", "get", "delete", "search", "me", "change_password",
     "delete_account"}

(* the token decodes, is not expired, carries a sub, and the sub is a user *)
TokenAccepted(token) ==
    /\ token.sig = "good"
    /\ now < token.exp
    /\ token.sub # 0
    /\ \E u \in users : OidStr(u._id) = token.sub

(* C9: a protected route runs only for a request whose bearer token decodes, is
   not expired, carries a non-empty sub that is an existing user at the time of
   the check; every other request is answered 401 and the route touches no
   store. *)
C9_ProtectedRoutes ==
    [][ /\ (resp'.op \in Protected /\ reg' = reg) =>
              /\ resp'.user # NONE =>
                    TokenAccepted(resp'.token) /\ resp'.user = resp'.token.sub
              /\ ~TokenAccepted(resp'.token) =>
                    /\ resp'.status = 401
                    /\ resp'.user = NONE
                    /\ resp'.calls = {}
                    /\ users' = users
                    /\ points' = points
                    /\ collection' = collection
        (* a change-password request whose body runs in a later step *)
        /\ \A c \in Clients :
              (reg[c].pc = "idle" /\ reg'[c].pc = "change_password") =>
                 /\ TokenAccepted(reg'[c].data.token)
                 /\ reg'[c].oid = reg'[c].data.token.sub ]_vars

(* a request with the unexpired token of a deleted account, answered 401 *)
C9_Witness ==
    /\ resp.op \in Protected \ {"delete_account"}
    /\ resp.status = 401
    /\ resp.exc = "UserNotFoundError"
    /\ points # {}

(* document d was stored and none of its points is left *)
NoPoints(stored, d) == \A p \in stored : p.payload.doc_id # d

Deleted(d) == d < nextDoc /\ NoPoints(points, d)

(* C10: a successful delete_user_document(d, u) leaves no point of d and u,
   whatever the number of chunks, and changes no point of another document;
   from then on a get of d is answered 404 and no list contains d. *)
C10_WholeDocumentDelete ==
    [][ /\ (resp'.op = "delete" /\ resp'.status = 200) =>
              /\ \A p \in points' : ~(/\ p.payload.doc_id = resp'.req.doc_id
                                      /\ p.payload.user_id = resp'.user)
              /\ \A p \in points : p.payload.doc_id # resp'.req.doc_id => p \in points'
              /\ points' \subseteq points
              /\ NoPoints(points', resp'.req.doc_id)
        /\ \A d \in DocIds : Deleted(d) =>
              /\ NoPoints(points', d)
              /\ (resp'.op = "get" /\ resp'.user # NONE /\ resp'.req.doc_id = d) =>
                    resp'.status = 404
              /\ (resp'.op = "list" /\ resp'.status = 200) =>
                    \A m \in resp'.body : m.doc_id # d ]_vars

(* a document deleted while another document stays stored *)
C10_Witness ==
    /\ resp.op = "delete"
    /\ resp.status = 200
    /\ Deleted(resp.req.doc_id)
    /\ points # {}

(* C11: a chunk is deleted only when its parent document is deleted.  A stored
   point of document d disappears only in a step that answers a successful
   delete of d by the owner; upload, list, get, search, register, login,
   logout, change-password and account deletion remove no stored point. *)
C11_ChunkDeletedOnlyWithDocument ==
    [][ \A p \in points :
          p \notin points' =>
             /\ resp'.op = "delete"
             /\ resp'.status = 200
             /\ resp'.req.doc_id = p.payload.doc_id
             /\ resp'.user = p.payload.user_id ]_vars

(* an account deleted while that user's chunks stay stored *)
C11_Witness ==
    /\ resp.op = "delete_account"
    /\ resp.status = 200
    /\ \E p \in points : p.payload.user_id = resp.user

(* C12: documents are immutable after upload.  No step changes the vector or
   the payload of a stored point; a successful upload stores its points under
   a doc_id no stored point carries, with ids (doc_id, chunk_index), and
   leaves every stored point in place, also when the same user uploads the
   same file again. *)
C12_DocumentsImmutable ==
    [][ /\ \A p \in points, q \in points' : q.id = p.id => q = p
        /\ (resp'.op = "upload" /\ resp'.status = 200) =>
              /\ points \subseteq points'
              /\ points' \ points # {}
              /\ \A n \in points' \ points :
                    /\ n.payload.doc_id = resp'.body.doc_id
                    /\ n.id = <<n.payload.doc_id, n.payload.chunk_index>>
                    /\ \A p \in points : /\ p.payload.doc_id # n.payload.doc_id
                                          /\ p.id # n.id ]_vars

(* the same file stored twice by the same user, as two documents *)
C12_Witness ==
    /\ resp.op = "upload"
    /\ resp.status = 200
    /\ \E p \in points :
          /\ p.payload.user_id = resp.user
          /\ p.payload.filename = resp.body.filename
          /\ p.payload.doc_id # resp.body.doc_id
    /\ \E p \in points : p.payload.doc_id = resp.body.doc_id

(* C13: the points of a stored document carry the same doc_id, user_id,
   filename, file_type, created_at and doc_metadata; their chunk_index values
   are 0..chunks_count-1, each once; chunks_count of doc_metadata and of the
   upload response is the number of points stored for the doc_id. *)
C13_DocumentChunks ==
    /\ \A d \in DocIds :
          \A p \in PointsOf(d) :
             /\ \A q \in PointsOf(d) :
                   /\ q.payload.user_id = p.payload.user_id
                   /\ q.payload.filename = p.payload.filename
                   /\ q.payload.file_type = p.payload.file_type
                   /\ q.payload.created_at = p.payload.created_at
                   /\ q.payload.doc_metadata = p.payload.doc_metadata
                   /\ (q.payload.chunk_index = p.payload.chunk_index => q = p)
             /\ p.payload.doc_metadata.doc_id = d
             /\ {q.payload.chunk_index : q \in PointsOf(d)} =
                   0..(p.payload.doc_metadata.chunks_count - 1)
             /\ Cardinality(PointsOf(d)) = p.payload.doc_metadata.chunks_count
    /\ (resp.op = "upload" /\ resp.status = 200) =>
          /\ PointsOf(resp.body.doc_id) # {}
          /\ resp.body.chunks_count = Cardinality(PointsOf(resp.body.doc_id))

(* an upload answered with three chunks *)
C13_Witness ==
    /\ resp.op = "upload"
    /\ resp.status = 200
    /\ resp.body.chunks_count = 3
    /\ Cardinality(points) > 3

(* C14: list_user_documents(u) returns every document with a stored chunk of
   u, each exactly once, however many documents and chunks u owns. *)
C14_ListComplete ==
    (resp.op = "list" /\ resp.status = 200) =>
       LET owned == {p.payload.doc_id : p \in {q \in points : q.payload.user_id = resp.user}}
       IN  /\ {m.doc_id : m \in resp.body} = owned
           /\ Cardinality(resp.body) = Cardinality(owned)

(* C15: every stored vector has the dimension VECTOR_SIZE, the size of the
   collection, whatever EMBEDDING_MODEL and VECTOR_SIZE are configured. *)
C15_VectorDimension ==
    /\ collection.exists => collection.size = settings.VECTOR_SIZE
    /\ \A p \in points : Len(p.vector) = settings.VECTOR_SIZE

(* an upload refused because the model's dimension is not VECTOR_SIZE *)
C15_Witness ==
    /\ settings.EMBEDDING_MODEL # settings.VECTOR_SIZE
    /\ resp.op = "upload"
    /\ resp.fault = "none"
    /\ resp.exc = "PointError"
    /\ "qdrant.upsert" \in resp.calls
    /\ points = {}

(* C16 as stated: no variable of the server process is written while a
   request is handled. *)
C16_NoInProcessState ==
    [][ collection_ready' = collection_ready ]_vars

(* C16 amended: the one process variable a request writes is
   VectorRepository._collection_ready; it is written only by an authenticated
   document request that reached Qdrant, only from False to True, and only
   when the collection exists afterwards. *)
C16_OnlyCollectionReady ==
    [][ collection_ready' # collection_ready =>
          /\ ~collection_ready
          /\ collection_ready'
          /\ collection'.exists
          /\ "qdrant.collection_exists" \in resp'.calls
          /\ resp'.op \in {"upload", "list", "get", "delete", "search"}
          /\ resp'.user # NONE ]_vars

(* the flag set by the first document request, the collection created *)
C16_Witness ==
    /\ collection_ready
    /\ collection.exists
    /\ "qdrant.create_collection" \in resp.calls

(* C18: logout is stateless.  POST /auth/logout changes neither the users
   collection, nor the vector points, nor the process state, and every token
   accepted before it is accepted after it. *)
C18_LogoutStateless ==
    [][ resp'.op = "logout" =>
          /\ users' = users
          /\ points' = points
          /\ collection' = collection
          /\ collection_ready' = collection_ready
          /\ \A t \in Tokens :
                get_current_user_bearer(t).ok => get_current_user_bearer(t)'.ok ]_vars

(* a logout after which a token is still accepted *)
C18_Witness ==
    /\ resp.op = "logout"
    /\ collection_ready
    /\ \E t \in issued : get_current_user_bearer(t).ok

(* C19: chunker is a fixed-size sliding window.  For n >= 1 tokens and
   0 <= overlap < size, chunk k is the tokens at positions k*(size-overlap) up
   to min(k*(size-overlap)+size, n)-1; every chunk is non-empty, every chunk
   but the last has size tokens, consecutive chunks share exactly overlap
   tokens, every token is in a chunk and the last chunk holds a token that no
   earlier chunk holds. *)
C19_SlidingWindow ==
    (/\ chunking.pc = "done"
     /\ Len(chunking.seq) >= 1
     /\ chunking.overlap < chunking.size) =>
       LET seq == chunking.seq
           n == Len(seq)
           step == chunking.size - chunking.overlap
           m == Len(chunking.chunks)
           Last(k) == Min(k * step + chunking.size, n)
           Pos(k) == (k * step)..(Last(k) - 1)
       IN  /\ m >= 1
           /\ \A k \in 0..(m - 1) :
                 /\ chunking.chunks[k + 1] = Join(SubSeq(seq, k * step + 1, Last(k)))
                 /\ Pos(k) # {}
           /\ \A k \in 0..(m - 2) :
                 /\ Cardinality(Pos(k)) = chunking.size
                 /\ Cardinality(Pos(k) \cap Pos(k + 1)) = chunking.overlap
           /\ UNION {Pos(k) : k \in 0..(m - 1)} = 0..(n - 1)
           /\ Pos(m - 1) \ UNION {Pos(k) : k \in 0..(m - 2)} # {}

(* a finished call with an overlap, three chunks or more and a short last chunk *)
C19_Witness ==
    /\ chunking.pc = "done"
    /\ chunking.overlap >= 1
    /\ chunking.overlap < chunking.size
    /\ Len(chunking.chunks) >= 3
    /\ Len(Split(chunking.chunks[Len(chunking.chunks)])) < chunking.size

(* C20: chunker terminates for every text and every CHUNK_SIZE >= 1 and
   OVERLAP >= 0: each pass of the loop that does not leave it brings start
   closer to the end of seq, so the loop is left after at most len(seq)
   passes. *)
C20_ChunkerTerminates ==
    [][ (chunking.pc = "loop" /\ chunking'.pc = "loop") =>
           Len(chunking.seq) - chunking'.start < Len(chunking.seq) - chunking.start ]_vars

(* C17 as stated: no operation is retried and a failure in any step ends the
   request with an error: a request in which a step failed answers with an
   error status, and no file is read a second time. *)
C17_NoRetryNoRecovery ==
    /\ resp.fault # "none" => resp.status >= 400
    /\ "extract.latin-1" \notin resp.calls

(* the step failures the code passes over: the UTF-8 read of a .txt file, and
   update_last_login not finding the user *)
PassedOver == {"decode", "update_user_not_found"}

(* C17, amended: every step is attempted once and a failed step ends the
   request with an error status, except that a .txt file whose UTF-8 read
   raised UnicodeDecodeError is read once more as latin-1, and that login
   issues its token when update_last_login finds no user. *)
C17_RetryOnlyWhereWritten ==
    /\ (resp.fault \notin PassedOver \cup {"none"}) => resp.status >= 400
    /\ "extract.latin-1" \in resp.calls =>
          /\ resp.op = "upload"
          /\ resp.fault = "decode"
          /\ Lower(resp.req.file.ext) = ".txt"
    /\ resp.fault = "update_user_not_found" => resp.op = "login"
    /\ resp.fault = "decode" => resp.op = "upload"

(* an upload whose embedding step failed, answered with an error *)
C17_Witness ==
    /\ resp.op = "upload"
    /\ resp.fault = "embed"
    /\ resp.status = 500

(* both exceptions happen: the latin-1 read answered 200 ... *)
C17_WitnessDecode ==
    /\ resp.op = "upload" /\ resp.fault = "decode" /\ resp.status = 200

(* ... and a login whose user was deleted before update_last_login *)
C17_WitnessLogin ==
    /\ resp.op = "login" /\ resp.fault = "update_user_not_found" /\ resp.status = 200

(* C21: updating the last-login time is non-critical for login.  A login whose
   credentials were valid and whose update_last_login failed (user record
   gone, database error, or an update that modified nothing) is answered 200
   with an access token that was issued. *)
C21_LastLoginNonCritical ==
    (resp.op = "login" /\ resp.fault # "none") =>
       /\ resp.status = 200
       /\ resp.body \in issued

(* C22: whenever the cached flag _collection_ready is true, the collection
   exists and all six payload indices have been created, after any sequence
   of successful and failed calls of _ensure_collection_exists. *)
C22_ReadyMeansIndexed ==
    collection_ready => collection.exists /\ collection.indices = INDEX_COUNT

(* C23: the temporary file of an upload is always cleaned up.  Whatever path
   _process_document takes (success, read failure, extraction error, empty
   text, chunking error, embedding error), no temporary file it created
   remains on disk. *)
C23_TempFileCleanedUp ==
    tempfiles = 0

(* the route body of client c's change-password request runs in this step *)
ChangePasswordRuns(c) ==
    reg[c].pc = "change_password" /\ reg'[c].pc = "idle"

(* C24: change_password with a wrong current password fails with ValueError,
   answered 400, and leaves the user record as it was (password hash and
   updated_at included); for a user id that has no record it fails with
   UserNotFoundError, answered 404, and writes nothing. *)
C24_ChangePasswordRefused ==
    [][ \A c \in Clients :
          ChangePasswordRuns(c) =>
             LET found == {u \in users : u._id = ObjectId(reg[c].oid)}
             IN  /\ resp'.op = "change_password"
                 /\ found = {} =>
                       /\ resp'.exc = "UserNotFoundError"
                       /\ resp'.status = 404
                       /\ users' = users
                       /\ "mongo.update_one" \notin resp'.calls
                 /\ \A u \in found :
                       u.password # hash_password(reg[c].data.req.current_password,
                                                  u.password[2]) =>
                          /\ resp'.exc = "ValueError"
                          /\ resp'.status = 400
                          /\ u \in users'
                          /\ users' = users
                          /\ "mongo.update_one" \notin resp'.calls ]_vars

(* a change-password request with a wrong current password answered 400 *)
C24_Witness ==
    /\ resp.op = "change_password"
    /\ resp.status = 400
    /\ resp.exc = "ValueError"
    /\ \E u \in users : /\ OidStr(u._id) = resp.user
                         /\ ~verify_password(resp.req.current_password, u.password)

(* a change-password request whose user was deleted after the token check *)
C24_WitnessUnknown ==
    /\ resp.op = "change_password"
    /\ resp.status = 404
    /\ resp.exc = "UserNotFoundError"
    /\ users = {}

(* client c's login request arrives in this step: its credentials are checked *)
LoginArrives(c) ==
    /\ reg[c].pc = "idle"
    /\ \/ reg'[c].pc = "login"
       \/ resp'.op = "login" /\ resp'.client = c

LoginRequest(c) ==
    IF reg'[c].pc = "login" THEN reg'[c].data ELSE resp'.req

(* the plain password a stored hash was made from *)
PasswordOf(password_hash) == password_hash[3]

(* C25: after change_password(u, current, new) succeeds, the stored hash of u
   is made from new, so that it verifies new and, when new differs from
   current, no longer verifies current; u's id and email are unchanged and no
   other record changes.  The hash of u changes in no other step, and every
   login that arrives is authenticated when the password it carries is the
   one the stored hash of that email was made from and is rejected with
   InvalidCredentialsError otherwise: a login with the old password is
   rejected and one with the new password is authenticated until the next
   successful change. *)
C25_PasswordChange ==
    [][ /\ \A c \in Clients :
              (ChangePasswordRuns(c) /\ resp'.status = 200) =>
                 \E u \in users, v \in users' :
                    /\ u._id = ObjectId(reg[c].oid)
                    /\ v._id = u._id
                    /\ v.email = u.email
                    /\ users' \ {v} = users \ {u}
                    /\ PasswordOf(u.password) = reg[c].data.req.current_password
                    /\ PasswordOf(v.password) = reg[c].data.req.new_password
        /\ \A u \in users, v \in users' :
              (v._id = u._id /\ v.password # u.password) =>
                 /\ resp'.op = "change_password"
                 /\ resp'.status = 200
                 /\ resp'.user = OidStr(u._id)
        /\ \A c \in Clients :
              LoginArrives(c) =>
                 LET known == \E u \in users :
                                 /\ u.email = LoginRequest(c).email
                                 /\ PasswordOf(u.password) = LoginRequest(c).password
                 IN  IF known
                     THEN reg'[c].pc = "login" /\ resp'.op # "login"
                     ELSE /\ reg'[c].pc = "idle"
                          /\ resp'.op = "login"
                          /\ resp'.exc = "InvalidCredentialsError"
                          /\ resp'.body = <<>> ]_vars

(* after a change from p1 to p2, a login with the old password was rejected *)
C25_Witness ==
    /\ resp.op = "login"
    /\ resp.exc = "InvalidCredentialsError"
    /\ resp.req.password = "p1"
    /\ \E u \in users : /\ u.email = resp.req.email
                         /\ PasswordOf(u.password) = "p2"
                         /\ u.updated_at = now

(* after a change from p1 to p2, a login with the new password got its token *)
C25_WitnessNew ==
    /\ resp.op = "login"
    /\ resp.status = 200
    /\ resp.req.password = "p2"
    /\ resp.body \in issued

(* token t was issued to an account whose record is gone: records leave the
   users collection only by a successful DELETE /auth/account *)
AccountDeleted(t) == \A u \in users : u._id # ObjectId(t.sub)

(* a protected request presenting token t arrives in this step *)
Presents(t) ==
    \/ resp'.op \in Protected /\ resp'.token = t /\ reg' = reg
    \/ \E c \in Clients :
          /\ reg[c].pc = "idle"
          /\ reg'[c].pc = "change_password"
          /\ reg'[c].data.token = t

LoginRejected(c) ==
    /\ reg'[c].pc = "idle"
    /\ resp'.op = "login"
    /\ resp'.client = c
    /\ resp'.exc = "InvalidCredentialsError"
    /\ resp'.status >= 400
    /\ resp'.body = <<>>

TokenRejected(t) ==
    /\ resp'.op \in Protected
    /\ resp'.token = t
    /\ resp'.status = 401
    /\ resp'.user = NONE
    /\ reg' = reg

(* C26 as stated: once the account of u is deleted, every request that
   presents a token issued to u, expired or not, is answered 401 on every
   protected endpoint, and every login with u's email fails. *)
C26_DeletedAccount ==
    [][ \A t \in issued :
          AccountDeleted(t) =>
             /\ Presents(t) => TokenRejected(t)
             /\ \A c \in Clients :
                   (LoginArrives(c) /\ LoginRequest(c).email = t.email) =>
                      LoginRejected(c) ]_vars

(* C26, amended: once the account of u is deleted, every request that
   presents a token issued to u, expired or not, is answered 401 on every
   protected endpoint, and every login with u's email fails for as long as
   no user record holds that email (the email can be registered again). *)
C26_DeletedAccountUntilRegistered ==
    [][ \A t \in issued :
          AccountDeleted(t) =>
             /\ Presents(t) => TokenRejected(t)
             /\ \A c \in Clients :
                   (/\ LoginArrives(c)
                    /\ LoginRequest(c).email = t.email
                    /\ \A u \in users : u.email # t.email) =>
                      LoginRejected(c) ]_vars

(* a request with the unexpired token of a deleted account answered 401 while
   another account is registered *)
C26_Witness ==
    /\ resp.op \in Protected
    /\ resp.token \in issued
    /\ AccountDeleted(resp.token)
    /\ now < resp.token.exp
    /\ resp.status = 401
    /\ users # {}

(* a login with the email of the deleted account, rejected *)
C26_WitnessLogin ==
    /\ resp.op = "login"
    /\ resp.exc = "InvalidCredentialsError"
    /\ \E t \in issued : AccountDeleted(t) /\ t.email = resp.req.email
    /\ users # {}

(* the upload fails at a step before the upsert: file type check, read,
   extraction, empty text, chunking or embedding *)
FailsBeforeUpsert(file, fault) ==
    \/ BadFileName(file)
    \/ fault \in {"read", "extract", "embed"}
    \/ Strip(load_document(file).text) = <<>>
    \/ chunker(load_document(file).text) = <<>>

(* C27: an upload that fails at a step before the upsert leaves the vector
   store (points, collection, readiness flag) unchanged; no failed upload
   changes the points; an upload that succeeds adds all of its chunks, and
   nothing else, in one upsert; after every step each stored document has as
   many points as its chunks_count says. *)
C27_UploadAllOrNothing ==
    [][ /\ (resp'.op = "upload" /\ resp'.user # NONE) =>
              /\ FailsBeforeUpsert(resp'.req.file, resp'.fault) =>
                    /\ resp'.status >= 400
                    /\ "qdrant.upsert" \notin resp'.calls
                    /\ points' = points
                    /\ collection' = collection
                    /\ collection_ready' = collection_ready
              /\ resp'.status # 200 => points' = points
              /\ resp'.status = 200 =>
                    /\ "qdrant.upsert" \in resp'.calls
                    /\ points \subseteq points'
                    /\ \A n \in points' \ points :
                          n.payload.doc_id = resp'.body.doc_id
                    /\ {n.payload.chunk_index : n \in points' \ points} =
                          0..(resp'.body.chunks_count - 1)
                    /\ Cardinality(points' \ points) = resp'.body.chunks_count
        /\ \A p \in points' :
              Cardinality({q \in points' : q.payload.doc_id = p.payload.doc_id}) =
                 p.payload.doc_metadata.chunks_count ]_vars

(* an upload of a document of several chunks, all of them stored *)
C27_Witness ==
    /\ resp.op = "upload"
    /\ resp.status = 200
    /\ resp.body.chunks_count >= 2
    /\ Cardinality(PointsOf(resp.body.doc_id)) = resp.body.chunks_count

(* an upload that failed while embedding, the stored document untouched *)
C27_WitnessFailed ==
    /\ resp.op = "upload"
    /\ resp.fault = "embed"
    /\ resp.status >= 400
    /\ points # {}

(* the chunks_count the upload of document d answered: upload_document writes
   it into the doc_metadata of every point of d *)
UploadedCount(d) == {p.payload.doc_metadata.chunks_count : p \in PointsOf(d)}

(* C28: read-your-writes with a consistent chunk count.  From the successful
   upload of a document by u until its deletion, a get of it by u is answered
   200 and every list for u contains it, and the chunks_count of the get, of
   the list entry and of the upload response are equal, however many chunks
   the document has. *)
C28_ReadYourWrites ==
    /\ (resp.op = "upload" /\ resp.status = 200) =>
          UploadedCount(resp.body.doc_id) = {resp.body.chunks_count}
    /\ (resp.op = "get" /\ resp.user # NONE /\ Owns(resp.user, resp.req.doc_id)) =>
          /\ resp.status = 200
          /\ UploadedCount(resp.req.doc_id) = {resp.body.chunks_count}
    /\ (resp.op = "list" /\ resp.user # NONE) =>
          \A d \in DocIds :
             Owns(resp.user, d) =>
                /\ resp.status = 200
                /\ \E m \in resp.body :
                      m.doc_id = d /\ UploadedCount(d) = {m.chunks_count}

====
